---- MODULE Spec2Model ----
(***************************************************************************)
(* dtoForge: OpenAPI schemas -> io-ts / Zod TypeScript modules.            *)
(*                                                                         *)
(* The model covers the schema walker (main.go), the per-dialect custom    *)
(* type registry, the type-to-code mapping and the Generate procedure of   *)
(* the two generators (internal/typescript, internal/zod).                 *)
(*                                                                         *)
(* Two specifications:                                                     *)
(*   SpecRegistry  one registry under Register / LoadFromConfig, with the  *)
(*                 pure lookups GetAllImports and the string rendering     *)
(*                 applied to it;                                          *)
(*   Spec          the pipeline: walker, then Generate runs, file by file, *)
(*                 on an output folder.                                    *)
(***************************************************************************)
EXTENDS Integers, Sequences, FiniteSets, TLC

VARIABLES
    dialect,    \* Language() of the generator in use: "typescript" or "typescript-zod"
    reg,        \* the CustomTypeRegistry (g.customTypes in a Generate run)
    lastOp,     \* the last registry operation applied, its arguments and its result
    lastWrite,  \* history: per format, the mapping of the most recent write
    nops,       \* number of Register / LoadFromConfig calls so far
    schemas,    \* components.schemas of the OpenAPI document: name -> schema node
    dtos,       \* the DTO list the walker handed to Generate
    cfg,        \* generator.Config.ConfigFile of the current run (a key of ConfigFiles, or "")
    fs,         \* the output folder: file name -> content
    pc,         \* position inside Generate
    sortedDTOs, \* Generate's local sortedDTOs
    idx,        \* index of the next per-DTO file to write
    err,        \* error returned by Generate ("" = nil)
    run         \* bookkeeping of the current and earlier runs

vars == <<dialect, reg, lastOp, lastWrite, nops, schemas, dtos, cfg, fs, pc,
          sortedDTOs, idx, err, run>>

regVars  == <<reg, lastOp, lastWrite, nops>>
pipeVars == <<schemas, dtos, cfg, fs, pc, sortedDTOs, idx, err, run>>

(***************************************************************************)
(* Bounds                                                                  *)
(***************************************************************************)
MaxOps == 2
MaxUsed == 2
MaxRuns == 2

Dialects == {"typescript", "typescript-zod"}

(***************************************************************************)
(* Go strings. TLA+ strings carry Len, SubSeq and \o; Go compares strings  *)
(* byte by byte, which Ascii (the printable characters in code order)      *)
(* reproduces.                                                             *)
(***************************************************************************)
Ascii == " !#$%&'()*+,-./0123456789:;<=>?@ABCDEFGHIJKLMNOPQRSTUVWXYZ[]^_abcdefghijklmnopqrstuvwxyz{|}~"
UpperChars == "ABCDEFGHIJKLMNOPQRSTUVWXYZ"
LowerChars == "abcdefghijklmnopqrstuvwxyz"

CharAt(s, i) == SubSeq(s, i, i)

\* position of each character in an alphabet (0 for a character it lacks)
Positions(alphabet) ==
    [c \in {CharAt(alphabet, i) : i \in 1..Len(alphabet)} |->
        CHOOSE i \in 1..Len(alphabet) : CharAt(alphabet, i) = c]
AsciiPositions == Positions(Ascii)
UpperPositions == Positions(UpperChars)
LowerPositions == Positions(LowerChars)

IndexIn(c, alphabet) ==
    LET positions == CASE alphabet = Ascii -> AsciiPositions
                       [] alphabet = UpperChars -> UpperPositions
                       [] alphabet = LowerChars -> LowerPositions
                       [] OTHER -> Positions(alphabet)
    IN  IF c \in DOMAIN positions THEN positions[c] ELSE 0

Ord(c) == IndexIn(c, Ascii)

\* a < b on Go strings
StrLess(a, b) ==
    \E i \in 1..Len(b) :
        /\ i <= Len(a) + 1
        /\ SubSeq(a, 1, i - 1) = SubSeq(b, 1, i - 1)
        /\ \/ i = Len(a) + 1
           \/ Ord(CharAt(a, i)) < Ord(CharAt(b, i))

IsUpper(c) == IndexIn(c, UpperChars) > 0

\* strings.ToLower, one character
LowerChar(c) == IF IsUpper(c) THEN CharAt(LowerChars, IndexIn(c, UpperChars)) ELSE c

RECURSIVE ToLower(_)
ToLower(s) == IF s = "" THEN "" ELSE LowerChar(CharAt(s, 1)) \o ToLower(Tail(s))

HasPrefix(s, p) == Len(p) <= Len(s) /\ SubSeq(s, 1, Len(p)) = p
HasSuffix(s, p) == Len(p) <= Len(s) /\ SubSeq(s, Len(s) - Len(p) + 1, Len(s)) = p

\* sort.Strings: insertion into an ascending sequence
RECURSIVE InsertString(_, _)
InsertString(x, seq) ==
    IF seq = <<>> THEN <<x>>
    ELSE IF StrLess(x, Head(seq)) THEN <<x>> \o seq
    ELSE <<Head(seq)>> \o InsertString(x, Tail(seq))

RECURSIVE SortStringsFrom(_, _)
SortStringsFrom(seq, acc) ==
    IF seq = <<>> THEN acc
    ELSE SortStringsFrom(Tail(seq), InsertString(Head(seq), acc))

\* a sort with the comparison turned round
SortStringsDescending(seq) ==
    LET up == SortStringsFrom(seq, <<>>) IN [i \in 1..Len(up) |-> up[Len(up) + 1 - i]]

\* sort.Strings
SortStrings(seq) == SortStringsFrom(seq, <<>>)

Range(seq) == {seq[i] : i \in 1..Len(seq)}

Has(m, k) == k \in DOMAIN m

(***************************************************************************)
(* Custom type registry (internal/typescript, internal/zod)                *)
(***************************************************************************)
\* CustomTypeMapping: Type is IoTsType / ZodType, Import is ImportStatement / Import
Mapping(type, tsType, import) ==
    [Type |-> type, TypeScriptType |-> tsType, Import |-> import]

BaseImport(d) ==
    IF d = "typescript" THEN "import * as t from 'io-ts';" ELSE "import { z } from 'zod';"

addDefaultMappings(d) ==
    IF d = "typescript"
    THEN ("date-time" :> Mapping("DateFromISOString", "Date",
                                 "import { DateFromISOString } from 'io-ts-types';"))
         @@ ("uuid" :> Mapping("t.string", "string", ""))
         @@ ("email" :> Mapping("t.string", "string", ""))
         @@ ("uri" :> Mapping("t.string", "string", ""))
         @@ ("date" :> Mapping("t.string", "string", ""))
    ELSE ("date-time" :> Mapping("z.string().datetime()", "string", ""))
         @@ ("uuid" :> Mapping("z.string().uuid()", "string", ""))
         @@ ("email" :> Mapping("z.string().email()", "string", ""))
         @@ ("uri" :> Mapping("z.string().url()", "string", ""))
         @@ ("url" :> Mapping("z.string().url()", "string", ""))
         @@ ("date" :> Mapping("z.string().date()", "string", ""))

\* the generation toggles of a dialect (Zod has no partial codecs)
Toggles(d) ==
    IF d = "typescript"
    THEN {"generatePackageJson", "generatePartialCodecs", "generateHelpers"}
    ELSE {"generatePackageJson", "generateHelpers"}

OutputFields == {"folder", "mode", "singleFileName"}

NewCustomTypeRegistry(d) ==
    [mappings   |-> addDefaultMappings(d),
     output     |-> [folder |-> "./generated", mode |-> "multiple",
                     singleFileName |-> "schemas.ts"],
     generation |-> [t \in Toggles(d) |-> TRUE]]

GetOutputConfig(r) == r.output
GetGenerationConfig(r) == r.generation
IsSingleFileMode(r) == r.output.mode = "single"
\* a GetSingleFileName that would not look at the configured name
GetSingleFileNameDefault(r) == "schemas.ts"

GetSingleFileName(r) ==
    IF r.output.singleFileName = "" THEN "schemas.ts" ELSE r.output.singleFileName

\* a Register that would keep the mapping a format already has
RegisterKeepsFirst(r, format, mapping) ==
    IF format \in DOMAIN r.mappings THEN r
    ELSE [r EXCEPT !.mappings = (format :> mapping) @@ r.mappings]

Register(r, format, mapping) ==
    [r EXCEPT !.mappings = (format :> mapping) @@ r.mappings]

\* Get returns (mapping, exists)
Get(r, format) ==
    IF format \in DOMAIN r.mappings
    THEN [mapping |-> r.mappings[format], exists |-> TRUE]
    ELSE [mapping |-> Mapping("", "", ""), exists |-> FALSE]

\* the loop of GetAllImports over usedFormats: customImports, guarded by importSet
RECURSIVE CollectImports(_, _, _)
CollectImports(r, usedFormats, customImports) ==
    IF usedFormats = <<>> THEN customImports
    ELSE LET format == Head(usedFormats)
             found  == Get(r, format)
             take   == /\ found.exists
                       /\ found.mapping.Import # ""
                       /\ found.mapping.Import \notin Range(customImports)
         IN CollectImports(r, Tail(usedFormats),
                           IF take THEN Append(customImports, found.mapping.Import)
                           ELSE customImports)

\* a GetAllImports that would skip sort.Strings
GetAllImportsUnsorted(d, r, usedFormats) ==
    <<BaseImport(d)>> \o CollectImports(r, usedFormats, <<>>)

GetAllImports(d, r, usedFormats) ==
    <<BaseImport(d)>> \o SortStrings(CollectImports(r, usedFormats, <<>>))

(***************************************************************************)
(* Configuration files. A file is missing, unreadable, unparsable, or a    *)
(* YAML document; the document is given by the keys it holds, in the       *)
(* section the dialect decodes (top level for io-ts, "typescript-zod" for  *)
(* Zod).                                                                   *)
(***************************************************************************)
NoKeys == [k \in {} |-> ""]

Doc(output, generation, customTypes) ==
    [kind |-> "doc", output |-> output, generation |-> generation,
     customTypes |-> customTypes]

UUIDImport == "import { UUID } from './uuid';"
MapUUID == Mapping("UUID", "UUID", UUIDImport)
MapUUIDCodec == Mapping("UUID.codec", "UUID", UUIDImport)
MapEmail == Mapping("EmailString", "EmailString", "import { EmailString } from './email-utils';")
MapPlain == Mapping("PlainText", "PlainText", "import { PlainText } from './plain';")
\* a mapping whose import line is the validation library itself
MapLibrary(d) ==
    IF d = "typescript" THEN Mapping("t.Int", "number", "import * as t from 'io-ts';")
    ELSE Mapping("z.coerce.date()", "Date", "import { z } from 'zod';")

ConfigPaths ==
    {"missing.yaml", "unreadable.yaml", "broken.yaml", "empty.yaml", "types.yaml",
     "single.yaml", "badmode.yaml", "pkgonly.yaml", "library.yaml", "manifest.yaml",
     "nopkg.yaml", "emptymode.yaml", "singleonly.yaml"}

ConfigFile(d, path) ==
    CASE path = "missing.yaml"    -> [kind |-> "missing"]
      [] path = "unreadable.yaml" -> [kind |-> "unreadable"]
      [] path = "broken.yaml"     -> [kind |-> "unparsable"]
      [] path = "empty.yaml"      -> Doc(NoKeys, NoKeys, NoKeys)
      [] path = "types.yaml"      ->
            Doc(NoKeys, NoKeys, ("uuid" :> MapUUID) @@ ("email" :> MapEmail))
      [] path = "single.yaml"     ->
            Doc(("mode" :> "single") @@ ("singleFileName" :> "all.ts"),
                [t \in Toggles(d) |-> t = "generatePackageJson"],
                ("uuid" :> MapUUIDCodec))
      [] path = "badmode.yaml"    ->
            Doc(("folder" :> "./custom-output") @@ ("mode" :> "invalid-mode"),
                [t \in Toggles(d) |-> FALSE],
                ("uuid" :> MapUUID))
      [] path = "pkgonly.yaml"    ->
            Doc(("folder" :> "./src/types"), ("generatePackageJson" :> TRUE), NoKeys)
      [] path = "library.yaml"    ->
            Doc(("mode" :> "multiple"), [t \in Toggles(d) |-> TRUE],
                ("int64" :> MapLibrary(d)) @@ ("" :> MapPlain))
      [] path = "manifest.yaml"   ->
            Doc(("mode" :> "single") @@ ("singleFileName" :> "package.json"),
                [t \in Toggles(d) |-> TRUE], NoKeys)
      [] path = "nopkg.yaml"      ->
            Doc(("mode" :> "multiple"), [t \in Toggles(d) |-> t # "generatePackageJson"],
                ("date-time" :> MapUUID))
      [] path = "emptymode.yaml"  ->
            Doc(("mode" :> ""), [t \in Toggles(d) |-> TRUE], NoKeys)
      [] path = "singleonly.yaml" ->
            Doc(("mode" :> "single"), NoKeys, NoKeys)

\* yaml.Unmarshal into the config struct: a key the document lacks is the zero value
Unmarshal(d, doc) ==
    [Output      |-> [f \in OutputFields |-> IF Has(doc.output, f) THEN doc.output[f] ELSE ""],
     Generation  |-> [t \in Toggles(d) |->
                         IF Has(doc.generation, t) THEN doc.generation[t] ELSE FALSE],
     CustomTypes |-> doc.customTypes]

\* for format, mapping := range config.CustomTypes { r.Register(format, mapping) }
RECURSIVE RegisterAll(_, _, _)
RegisterAll(r, customTypes, formats) ==
    IF formats = {} THEN r
    ELSE LET format == CHOOSE f \in formats : TRUE
         IN RegisterAll(Register(r, format, customTypes[format]), customTypes,
                        formats \ {format})

\* the generation block of LoadFromConfig
LoadGeneration(r, config) == [r EXCEPT !.generation = config.Generation]

\* an output block that would store the mode before checking it
LoadOutputStoringMode(r, config) ==
    LET o  == config.Output
        r1 == IF o.folder # "" THEN [r EXCEPT !.output.folder = o.folder] ELSE r
        r2 == IF o.mode # "" THEN [r1 EXCEPT !.output.mode = o.mode] ELSE r1
    IN  IF o.folder = "" /\ o.mode = "" /\ o.singleFileName = ""
        THEN [reg |-> r, err |-> ""]
        ELSE IF o.mode # "" /\ o.mode # "multiple" /\ o.mode # "single"
        THEN [reg |-> r2, err |-> "invalid output mode"]
        ELSE [reg |-> IF o.singleFileName # ""
                      THEN [r2 EXCEPT !.output.singleFileName = o.singleFileName]
                      ELSE r2,
              err |-> ""]

\* the output block of LoadFromConfig; the folder is stored before the mode is checked
LoadOutput(r, config) ==
    LET o  == config.Output
        r1 == IF o.folder # "" THEN [r EXCEPT !.output.folder = o.folder] ELSE r
    IN  IF o.folder = "" /\ o.mode = "" /\ o.singleFileName = ""
        THEN [reg |-> r, err |-> ""]
        ELSE IF o.mode # "" /\ o.mode # "multiple" /\ o.mode # "single"
        THEN [reg |-> r1, err |-> "invalid output mode"]
        ELSE LET r2 == IF o.mode # "" THEN [r1 EXCEPT !.output.mode = o.mode] ELSE r1
                 r3 == IF o.singleFileName # ""
                       THEN [r2 EXCEPT !.output.singleFileName = o.singleFileName]
                       ELSE r2
             IN [reg |-> r3, err |-> ""]

\* a LoadFromConfig without the os.Stat test: the missing file fails in os.ReadFile
LoadFromConfigMissingFails(d, r, path) ==
    LET file == ConfigFile(d, path)
    IN  CASE file.kind \in {"missing", "unreadable"} ->
                [reg |-> r, err |-> "failed to read config file"]
          [] file.kind = "unparsable" -> [reg |-> r, err |-> "failed to parse config file"]
          [] OTHER ->
                LET config == Unmarshal(d, file)
                    out    == LoadOutput(r, config)
                IN  IF out.err # "" THEN out
                    ELSE [reg |-> RegisterAll(LoadGeneration(out.reg, config),
                                              config.CustomTypes,
                                              DOMAIN config.CustomTypes),
                          err |-> ""]

LoadFromConfig(d, r, path) ==
    LET file == ConfigFile(d, path)
    IN  CASE file.kind = "missing"    -> [reg |-> r, err |-> ""]
          [] file.kind = "unreadable" -> [reg |-> r, err |-> "failed to read config file"]
          [] file.kind = "unparsable" -> [reg |-> r, err |-> "failed to parse config file"]
          [] OTHER ->
                LET config == Unmarshal(d, file)
                    out    == LoadOutput(r, config)
                IN  IF out.err # "" THEN out
                    ELSE [reg |-> RegisterAll(LoadGeneration(out.reg, config),
                                              config.CustomTypes,
                                              DOMAIN config.CustomTypes),
                          err |-> ""]

(***************************************************************************)
(* IR types (internal/generator)                                           *)
(***************************************************************************)
PrimitiveType(name, format) == [kind |-> "Primitive", Name |-> name, Format |-> format]
ArrayType(elementType) == [kind |-> "Array", ElementType |-> elementType]
ReferenceType(refName) == [kind |-> "Reference", RefName |-> refName]
EnumType(name, underlyingType, values) ==
    [kind |-> "Enum", Name |-> name, UnderlyingType |-> underlyingType, Values |-> values]
ObjectType(dtoRef, refName, inline) ==
    [kind |-> "Object", DTORef |-> dtoRef, RefName |-> refName, Inline |-> inline]
\* the nil interface value of a Property whose Type was never assigned
NilType == [kind |-> "nil"]
\* a value of a type that implements IRType and is none of the five variants
ForeignType == [kind |-> "foreign"]

\* strings.Join
RECURSIVE Join(_, _)
Join(parts, sep) ==
    IF parts = <<>> THEN ""
    ELSE IF Len(parts) = 1 THEN parts[1]
    ELSE parts[1] \o sep \o Join(Tail(parts), sep)

(***************************************************************************)
(* Type-to-code mapping, io-ts                                             *)
(***************************************************************************)
RECURSIVE toIoTsType(_, _, _)
\* a toIoTsType that would print a reference without the Codec suffix
toIoTsTypeBareReference(r, irType, nullable) ==
    CASE irType.kind = "Reference" -> irType.RefName
      [] irType.kind = "Array" ->
            "t.array(" \o toIoTsType(r, irType.ElementType, FALSE) \o ")"
      [] OTHER -> "t.unknown"

toIoTsType(r, irType, nullable) ==
    LET baseType ==
            CASE irType.kind = "Primitive" ->
                    (CASE irType.Name = "string" ->
                            IF irType.Format # ""
                            THEN IF Get(r, irType.Format).exists
                                 THEN Get(r, irType.Format).mapping.Type
                                 ELSE "t.string"
                            ELSE "t.string"
                       [] irType.Name \in {"number", "integer"} -> "t.number"
                       [] irType.Name = "boolean" -> "t.boolean"
                       [] OTHER -> "t.unknown")
              [] irType.kind = "Array" ->
                    "t.array(" \o toIoTsType(r, irType.ElementType, FALSE) \o ")"
              [] irType.kind = "Reference" -> irType.RefName \o "Codec"
              [] irType.kind = "Enum" ->
                    "t.keyof({"
                    \o Join([i \in 1..Len(irType.Values) |->
                                "'" \o irType.Values[i] \o "': null"], ", ")
                    \o "})"
              [] irType.kind = "Object" ->
                    IF irType.RefName # "" THEN irType.RefName \o "Codec" ELSE "t.unknown"
              [] OTHER -> "t.unknown"
    IN  IF nullable THEN "t.union([" \o baseType \o ", t.null])" ELSE baseType

(***************************************************************************)
(* Type-to-code mapping, Zod                                               *)
(***************************************************************************)
\* a generator whose customTypes field is still nil
NilRegistry == [mappings |-> NoKeys, nil |-> TRUE]

stringWithFormat(r, format) ==
    IF r # NilRegistry /\ Get(r, format).exists
    THEN Get(r, format).mapping.Type
    ELSE CASE format = "email" -> "z.string().email()"
           [] format = "uuid" -> "z.string().uuid()"
           [] format \in {"uri", "url"} -> "z.string().url()"
           [] format = "date-time" -> "z.string().datetime()"
           [] format = "date" -> "z.string().date()"
           [] format = "" -> "z.string()"
           [] OTHER -> "z.string() /* format: " \o format \o " */"

\* a primitiveToZod that would refine integers
primitiveToZodIntegerRefined(r, prim) ==
    CASE prim.Name = "string" -> stringWithFormat(r, prim.Format)
      [] prim.Name = "number" -> "z.number()"
      [] prim.Name = "integer" -> "z.number().int()"
      [] prim.Name = "boolean" -> "z.boolean()"
      [] OTHER -> "z.unknown()"

primitiveToZod(r, prim) ==
    CASE prim.Name = "string" -> stringWithFormat(r, prim.Format)
      [] prim.Name \in {"number", "integer"} -> "z.number()"
      [] prim.Name = "boolean" -> "z.boolean()"
      [] OTHER -> "z.unknown()"

RECURSIVE toZodType(_, _, _, _)
\* a toZodType that would apply the optional modifier before the nullable one
toZodTypeOptionalFirst(r, irType, nullable, optional) ==
    LET baseType ==
            CASE irType.kind = "Primitive" -> primitiveToZod(r, irType)
              [] irType.kind = "Array" ->
                    "z.array(" \o toZodType(r, irType.ElementType, FALSE, FALSE) \o ")"
              [] irType.kind = "Reference" -> irType.RefName \o "Schema"
              [] OTHER -> "z.unknown()"
        withOptional == IF optional THEN baseType \o ".optional()" ELSE baseType
    IN  IF nullable THEN withOptional \o ".nullable()" ELSE withOptional

toZodType(r, irType, nullable, optional) ==
    LET baseType ==
            CASE irType.kind = "Primitive" -> primitiveToZod(r, irType)
              [] irType.kind = "Array" ->
                    "z.array(" \o toZodType(r, irType.ElementType, FALSE, FALSE) \o ")"
              [] irType.kind = "Reference" -> irType.RefName \o "Schema"
              [] irType.kind = "Enum" ->
                    "z.enum(["
                    \o Join([i \in 1..Len(irType.Values) |->
                                "'" \o irType.Values[i] \o "'"], ", ")
                    \o "])"
              [] irType.kind = "Object" ->
                    IF irType.RefName # "" THEN irType.RefName \o "Schema"
                    ELSE "z.record(z.unknown())"
              [] OTHER -> "z.unknown()"
        withNull == IF nullable THEN baseType \o ".nullable()" ELSE baseType
    IN  IF optional THEN withNull \o ".optional()" ELSE withNull

\* the validator expression of a type in the dialect d
toValidator(d, r, irType, nullable) ==
    IF d = "typescript" THEN toIoTsType(r, irType, nullable)
    ELSE toZodType(r, irType, nullable, FALSE)

(***************************************************************************)
(* Schema walker (main.go). A schema node is a map from its keys to their  *)
(* values; v, ok := schema[k].(T) succeeds when the node holds the key.    *)
(***************************************************************************)
RECURSIVE SetToSeq(_)
SetToSeq(S) ==
    IF S = {} THEN <<>>
    ELSE LET x == CHOOSE y \in S : TRUE IN <<x>> \o SetToSeq(S \ {x})

RECURSIVE LastSlash(_, _)
LastSlash(s, i) ==
    IF i = 0 THEN 0 ELSE IF CharAt(s, i) = "/" THEN i ELSE LastSlash(s, i - 1)

\* parts := strings.Split(ref, "/"); parts[len(parts)-1]
extractRefName(ref) == SubSeq(ref, LastSlash(ref, Len(ref)) + 1, Len(ref))

\* strings.Title on a property name: the first letter in upper case
Title(s) ==
    IF s = "" THEN ""
    ELSE LET c == CharAt(s, 1)
             k == IndexIn(c, LowerChars)
         IN (IF k > 0 THEN CharAt(UpperChars, k) ELSE c) \o Tail(s)

\* a scalar of the decoded document: a string, or a value of another Go type
Str(s) == [kind |-> "string", text |-> s]
Num(s) == [kind |-> "int", text |-> s]

\* for _, val := range enumVals { if strVal, ok := val.(string); ok { append } }
RECURSIVE stringValues(_)
stringValues(vals) ==
    IF vals = <<>> THEN <<>>
    ELSE (IF Head(vals).kind = "string" THEN <<Head(vals).text>> ELSE <<>>)
         \o stringValues(Tail(vals))

\* a walker that would never set prop.Required
propRequiredNever(name, required) == FALSE

\* for _, req := range required { if req == name { prop.Required = true } }
propRequired(name, required) == \E i \in 1..Len(required) : required[i] = name

DTO(name, description, properties, required, type, enumValues) ==
    [Name |-> name, Description |-> description, Properties |-> properties,
     Required |-> required, Type |-> type, EnumValues |-> enumValues]

Property(name, type, description, nullable, required) ==
    [Name |-> name, Type |-> type, Description |-> description,
     Nullable |-> nullable, Required |-> required]

StringOr(schema, key, default) == IF Has(schema, key) THEN schema[key] ELSE default

RECURSIVE convertSchemaToGeneratorDTO(_, _)
RECURSIVE convertSchemaToGeneratorProperty(_, _, _)

convertSchemaToGeneratorProperty(name, schema, required) ==
    LET isRequired  == propRequired(name, required)
        description == StringOr(schema, "description", "")
        nullable    == IF Has(schema, "nullable") THEN schema["nullable"] ELSE FALSE
        type ==
            IF Has(schema, "enum")
            THEN EnumType(Title(name) \o "Enum", StringOr(schema, "type", "string"),
                          stringValues(schema["enum"]))
            ELSE IF Has(schema, "type")
            THEN LET typ == schema["type"]
                 IN  CASE typ = "string" ->
                             PrimitiveType("string", StringOr(schema, "format", ""))
                       [] typ \in {"number", "integer"} -> PrimitiveType(typ, "")
                       [] typ = "boolean" -> PrimitiveType("boolean", "")
                       [] typ = "array" ->
                             IF Has(schema, "items")
                             THEN ArrayType(convertSchemaToGeneratorProperty(
                                                name \o "Item", schema["items"], <<>>).Type)
                             ELSE NilType
                       [] typ = "object" ->
                             IF Has(schema, "$ref")
                             THEN ReferenceType(extractRefName(schema["$ref"]))
                             ELSE ObjectType(convertSchemaToGeneratorDTO(name, schema), "", TRUE)
                       [] OTHER -> PrimitiveType(typ, "")
            ELSE IF Has(schema, "$ref")
            THEN ReferenceType(extractRefName(schema["$ref"]))
            ELSE PrimitiveType("unknown", "")
    IN  Property(name, type, description, nullable, isRequired)

convertSchemaToGeneratorDTO(name, schema) ==
    LET description == StringOr(schema, "description", "")
    IN  IF Has(schema, "enum")
        THEN DTO(name, description, <<>>, <<>>, "enum", stringValues(schema["enum"]))
        ELSE LET required == IF Has(schema, "required") THEN schema["required"] ELSE <<>>
             IN  IF Has(schema, "type") /\ schema["type"] = "object"
                 THEN LET props     == IF Has(schema, "properties")
                                       THEN schema["properties"] ELSE NoKeys
                          propNames == SortStrings(SetToSeq(DOMAIN props))
                      IN  DTO(name, description,
                              [i \in 1..Len(propNames) |->
                                  convertSchemaToGeneratorProperty(
                                      propNames[i], props[propNames[i]], required)],
                              required, "object", <<>>)
                 ELSE DTO(name, description, <<>>, required, "", <<>>)

\* the schema names the properties of a node refer to, directly or as array items
RefTargetsOf(node) ==
    IF ~Has(node, "properties") THEN {}
    ELSE LET props == node["properties"]
             direct == {props[k] : k \in DOMAIN props}
             items  == {n["items"] : n \in {m \in direct : Has(m, "items")}}
         IN  {extractRefName(n["$ref"]) : n \in {m \in direct \cup items : Has(m, "$ref")}}

\* a walker that would resolve every $ref against the map and fail on a missing name
convertToGeneratorDTOsResolving(schemaMap, order) ==
    IF \E i \in 1..Len(order) : ~(RefTargetsOf(schemaMap[order[i]]) \subseteq DOMAIN schemaMap)
    THEN <<>>
    ELSE [i \in 1..Len(order) |-> convertSchemaToGeneratorDTO(order[i], schemaMap[order[i]])]

\* for name, schemaVal := range schemas: the map is visited in the order `order`
convertToGeneratorDTOs(schemaMap, order) ==
    [i \in 1..Len(order) |-> convertSchemaToGeneratorDTO(order[i], schemaMap[order[i]])]

(***************************************************************************)
(* Schema documents the pipeline is run on                                 *)
(***************************************************************************)
StringNode == ("type" :> "string")
FormatNode(format) == ("type" :> "string") @@ ("format" :> format)
RefNode(name) == ("$ref" :> ("#/components/schemas/" \o name))

\* the User schema of the end-to-end example, and a Status enum
UserSchema ==
    ("type" :> "object")
    @@ ("required" :> <<"id", "name">>)
    @@ ("properties" :> [id    |-> StringNode,
                         name  |-> StringNode,
                         email |-> FormatNode("email"),
                         age   |-> ("type" :> "integer")])

StatusSchema == ("type" :> "string") @@ ("enum" :> <<Str("active"), Str("inactive"), Str("pending")>>)

\* a second schema whose name differs from User only in case; the date-time format
\* occurs only below the top level, in an array and in an inline object
LowerUserSchema ==
    ("type" :> "object")
    @@ ("required" :> <<"login">>)
    @@ ("properties" :>
          [login  |-> FormatNode("uuid"),
           seen   |-> ("type" :> "array") @@ ("items" :> FormatNode("date-time")),
           backup |-> ("type" :> "object")
                      @@ ("properties" :> [stamp |-> FormatNode("date-time")])])

\* arrays, references, an inline object, nullable and enum-typed properties
OrderSchema ==
    ("type" :> "object")
    @@ ("description" :> "An order")
    @@ ("required" :> <<"id", "owner", "address">>)
    @@ ("properties" :>
          [id        |-> FormatNode("uuid"),
           createdAt |-> FormatNode("date-time") @@ ("nullable" :> TRUE),
           owner     |-> RefNode("User"),
           lines     |-> ("type" :> "array") @@ ("items" :> RefNode("OrderLine")),
           state     |-> ("type" :> "string") @@ ("enum" :> <<Str("open"), Str("closed")>>),
           address   |-> ("type" :> "object")
                         @@ ("required" :> <<"city">>)
                         @@ ("properties" :> [city |-> StringNode,
                                              zip  |-> StringNode])])

IndexSchema ==
    ("type" :> "object")
    @@ ("properties" :> [key |-> StringNode, int64 |-> FormatNode("int64")])

SchemaMaps ==
    { [User |-> UserSchema, Status |-> StatusSchema],
      [User |-> UserSchema, user |-> LowerUserSchema],
      [Order |-> OrderSchema, User |-> UserSchema, UserProfile |-> LowerUserSchema],
      [Index |-> IndexSchema, Status |-> StatusSchema] }

Perms(S) == {q \in [1..Cardinality(S) -> S] : \A i, j \in 1..Cardinality(S) : i # j => q[i] # q[j]}

(***************************************************************************)
(* Generators (TypeScriptGenerator, ZodGenerator)                          *)
(***************************************************************************)
RECURSIVE kebabFrom(_, _)
kebabFrom(s, i) ==
    IF i > Len(s) THEN ""
    ELSE (IF i > 1 /\ IsUpper(CharAt(s, i)) THEN "-" ELSE "")
         \o CharAt(s, i) \o kebabFrom(s, i + 1)

toKebabCase(s) == ToLower(kebabFrom(s, 1))

FileExtension == ".ts"

isRequired(propName, required) == \E i \in 1..Len(required) : required[i] = propName

getPackageName(d, packageName) ==
    IF packageName # "" THEN packageName
    ELSE IF d = "typescript" THEN "generated-schemas" ELSE "generated-zod-schemas"

RECURSIVE usedFormatsFrom(_, _)
usedFormatsFrom(props, formats) ==
    IF props = <<>> THEN formats
    ELSE LET t == Head(props).Type
         IN  usedFormatsFrom(Tail(props),
                 IF t.kind = "Primitive" /\ t.Format # "" /\ t.Format \notin Range(formats)
                 THEN Append(formats, t.Format)
                 ELSE formats)

\* a scan that would also descend into array elements
RECURSIVE FormatsOfType(_)
FormatsOfType(t) ==
    CASE t.kind = "Primitive" -> {t.Format} \ {""}
      [] t.kind = "Array" -> FormatsOfType(t.ElementType)
      [] OTHER -> {}

getUsedFormatsInDTODeep(dto) ==
    SetToSeq(UNION {FormatsOfType(dto.Properties[i].Type) : i \in 1..Len(dto.Properties)})

getUsedFormatsInDTO(dto) == usedFormatsFrom(dto.Properties, <<>>)

calculateImports(d, r, dto) == GetAllImports(d, r, getUsedFormatsInDTO(dto))

RECURSIVE allFormatsFrom(_, _)
allFormatsFrom(dtoList, allFormats) ==
    IF dtoList = <<>> THEN allFormats
    ELSE LET dtoFormats == getUsedFormatsInDTO(Head(dtoList))
             fresh == SelectSeq(dtoFormats, LAMBDA f : f \notin Range(allFormats))
         IN  allFormatsFrom(Tail(dtoList), allFormats \o fresh)

RECURSIVE InsertDTO(_, _)
InsertDTO(x, seq) ==
    IF seq = <<>> THEN <<x>>
    ELSE IF StrLess(x.Name, Head(seq).Name) THEN <<x>> \o seq
    ELSE <<Head(seq)>> \o InsertDTO(x, Tail(seq))

RECURSIVE SortDTOsFrom(_, _)
SortDTOsFrom(seq, acc) ==
    IF seq = <<>> THEN acc ELSE SortDTOsFrom(Tail(seq), InsertDTO(Head(seq), acc))

\* a copy of the list without the sort
sortDTOsKeepingOrder(dtoList) == dtoList

\* sort.Slice(sorted, func(i, j int) bool { return sorted[i].Name < sorted[j].Name })
sortDTOsByDependency(dtoList) == SortDTOsFrom(dtoList, <<>>)

\* the field line a template writes for a property: the io-ts templates ask
\* isRequired, the Zod templates pass the negated Required flag to toZodType
renderField(d, r, dto, prop) ==
    IF d = "typescript"
    THEN IF isRequired(prop.Name, dto.Required)
         THEN toIoTsType(r, prop.Type, prop.Nullable)
         ELSE "t.union([" \o toIoTsType(r, prop.Type, prop.Nullable) \o ", t.undefined])"
    ELSE toZodType(r, prop.Type, prop.Nullable, ~prop.Required)

renderDTO(d, r, dto) ==
    [i \in 1..Len(dto.Properties) |->
        [name |-> dto.Properties[i].Name, expr |-> renderField(d, r, dto, dto.Properties[i])]]

\* what tmpl.Execute writes: the template, the data handed to it and the lines
\* the template renders from the data
File(template, dtoList, imports, packageName, partialCodecs, helpers, body) ==
    [template |-> template, DTOs |-> dtoList, Imports |-> imports,
     PackageName |-> packageName, GeneratePartialCodecs |-> partialCodecs,
     GenerateHelpers |-> helpers, body |-> body]

\* a file os.Create has truncated and tmpl.Execute did not finish
Truncated == File("", <<>>, <<>>, "", FALSE, FALSE, <<>>)

\* a file the user keeps in the output folder
UserFile(name) == File("user", <<>>, <<>>, name, FALSE, FALSE, <<>>)

Outcomes == {"ok", "create fails", "execute fails"}

\* file, err := os.Create(path); ...; return tmpl.Execute(file, data)
writeFile(files, filename, content, outcome) ==
    CASE outcome = "create fails" ->
            [fs |-> files, err |-> "open " \o filename \o ": permission denied",
             created |-> FALSE]
      [] outcome = "execute fails" ->
            [fs |-> (filename :> Truncated) @@ files,
             err |-> "write " \o filename \o ": no space left on device",
             created |-> TRUE]
      [] OTHER ->
            [fs |-> (filename :> content) @@ files, err |-> "", created |-> TRUE]

Toggle(r, t) == IF Has(GetGenerationConfig(r), t) THEN GetGenerationConfig(r)[t] ELSE FALSE

generateSingleFile(d, r, files, dtoList, packageName, outcome) ==
    LET allImports == IF d = "typescript"
                      THEN GetAllImports(d, r, allFormatsFrom(dtoList, <<>>))
                      ELSE <<>>
        res == writeFile(files, GetSingleFileName(r),
                  File("single-file", dtoList, allImports, getPackageName(d, packageName),
                       Toggle(r, "generatePartialCodecs"), Toggle(r, "generateHelpers"),
                       [i \in 1..Len(dtoList) |-> renderDTO(d, r, dtoList[i])]),
                  outcome)
    IN  \* the Zod generator wraps the error of tmpl.Execute
        IF d # "typescript" /\ outcome = "execute fails"
        THEN [res EXCEPT !.err = "template execute error: " \o @]
        ELSE res

generateDTOFile(d, r, files, dto, packageName, outcome) ==
    writeFile(files, toKebabCase(dto.Name) \o FileExtension,
              File("dto", <<dto>>, calculateImports(d, r, dto),
                   getPackageName(d, packageName),
                   Toggle(r, "generatePartialCodecs"), FALSE,
                   <<renderDTO(d, r, dto)>>),
              outcome)

generateIndexFile(d, r, files, dtoList, packageName, outcome) ==
    writeFile(files, "index.ts",
              File("index", dtoList, <<>>, getPackageName(d, packageName), FALSE,
                   Toggle(r, "generateHelpers"),
                   [i \in 1..Len(dtoList) |-> toKebabCase(dtoList[i].Name)]),
              outcome)

\* a generatePackageJSON without the os.Stat test
generatePackageJSONOverwriting(d, files, packageName, outcome) ==
    writeFile(files, "package.json",
              File("package", <<>>, <<>>, getPackageName(d, packageName), FALSE, FALSE, <<>>),
              outcome)

\* if _, err := os.Stat(filepath); err == nil { return nil }
generatePackageJSON(d, files, packageName, outcome) ==
    IF Has(files, "package.json")
    THEN [fs |-> files, err |-> "", created |-> FALSE]
    ELSE writeFile(files, "package.json",
                   File("package", <<>>, <<>>, getPackageName(d, packageName), FALSE, FALSE,
                        <<>>),
                   outcome)

\* a Generate that would go on after a LoadFromConfig error
loadCustomTypesIgnoringError(d, configFile) ==
    IF configFile # ""
    THEN [reg |-> LoadFromConfig(d, NewCustomTypeRegistry(d), configFile).reg, err |-> ""]
    ELSE [reg |-> NewCustomTypeRegistry(d), err |-> ""]

\* a Generate that would load the configuration into the registry of the call before
loadCustomTypesKeepingRegistry(d, configFile) ==
    IF configFile # ""
    THEN LET res == LoadFromConfig(d, reg, configFile)
         IN  IF res.err # ""
             THEN [reg |-> res.reg,
                   err |-> "failed to load custom types config from " \o configFile
                           \o ": " \o res.err]
             ELSE res
    ELSE [reg |-> reg, err |-> ""]

\* Generate, up to the return on a configuration error
loadCustomTypes(d, configFile) ==
    IF configFile # ""
    THEN LET res == LoadFromConfig(d, NewCustomTypeRegistry(d), configFile)
         IN  IF res.err # ""
             THEN [reg |-> res.reg,
                   err |-> "failed to load custom types config from " \o configFile
                           \o ": " \o res.err]
             ELSE res
    ELSE [reg |-> NewCustomTypeRegistry(d), err |-> ""]

(***************************************************************************)
(* SpecRegistry: one registry, created by NewCustomTypeRegistry, under     *)
(* Register and LoadFromConfig; GetAllImports and the rendering of a       *)
(* string primitive are applied to the registry as it stands.              *)
(***************************************************************************)
RegFormats == {"", "uuid", "int64"}
RegMappings(d) == {MapUUIDCodec, MapPlain, MapLibrary(d)}
\* the formats a caller asks imports for (getUsedFormatsInDTO drops the empty format)
UsedFormats == {"uuid", "int64"}
RegConfigPaths ==
    {"missing.yaml", "unreadable.yaml", "broken.yaml", "badmode.yaml", "types.yaml",
     "single.yaml", "pkgonly.yaml", "library.yaml", "nopkg.yaml"}

RECURSIVE SeqsUpTo(_, _)
SeqsUpTo(S, n) ==
    IF n = 0 THEN {<<>>}
    ELSE LET shorter == SeqsUpTo(S, n - 1)
         IN shorter \cup {Append(q, x) : q \in shorter, x \in S}

PipeIdle ==
    /\ schemas = NoKeys
    /\ dtos = <<>>
    /\ cfg = ""
    /\ fs = NoKeys
    /\ pc = "idle"
    /\ sortedDTOs = <<>>
    /\ idx = 0
    /\ err = ""
    /\ run = [n |-> 0]

InitRegistry ==
    /\ dialect \in Dialects
    /\ reg = NewCustomTypeRegistry(dialect)
    /\ lastOp = [op |-> "NewCustomTypeRegistry"]
    /\ lastWrite = addDefaultMappings(dialect)
    /\ nops = 0
    /\ PipeIdle

\* a lookup closes a scenario: writes come first, then one lookup on the result
Writing == lastOp.op \in {"NewCustomTypeRegistry", "Register", "LoadFromConfig"}

DoRegister(format, mapping) ==
    /\ Writing
    /\ nops < MaxOps
    /\ reg' = Register(reg, format, mapping)
    /\ lastWrite' = (format :> mapping) @@ lastWrite
    /\ lastOp' = [op |-> "Register", format |-> format, mapping |-> mapping, before |-> reg]
    /\ nops' = nops + 1
    /\ UNCHANGED <<dialect, pipeVars>>

DoLoadFromConfig(path) ==
    /\ Writing
    /\ nops < MaxOps
    /\ LET res  == LoadFromConfig(dialect, reg, path)
           file == ConfigFile(dialect, path)
       IN  /\ reg' = res.reg
           /\ lastWrite' = IF file.kind = "doc" /\ res.err = ""
                           THEN file.customTypes @@ lastWrite
                           ELSE lastWrite
           /\ lastOp' = [op |-> "LoadFromConfig", path |-> path, err |-> res.err,
                         before |-> reg]
    /\ nops' = nops + 1
    /\ UNCHANGED <<dialect, pipeVars>>

DoGetAllImports(usedFormats) ==
    /\ Writing
    /\ lastOp' = [op |-> "GetAllImports", usedFormats |-> usedFormats,
                  result |-> GetAllImports(dialect, reg, usedFormats)]
    /\ UNCHANGED <<dialect, reg, lastWrite, nops, pipeVars>>

DoRenderString(format) ==
    /\ Writing
    /\ lastOp' = [op |-> "RenderString", format |-> format,
                  result |-> toValidator(dialect, reg, PrimitiveType("string", format), FALSE)]
    /\ UNCHANGED <<dialect, reg, lastWrite, nops, pipeVars>>

NextRegistry ==
    \/ \E format \in RegFormats, mapping \in RegMappings(dialect) : DoRegister(format, mapping)
    \/ \E path \in RegConfigPaths : DoLoadFromConfig(path)
    \/ \E usedFormats \in SeqsUpTo(UsedFormats, MaxUsed) : DoGetAllImports(usedFormats)
    \/ \E format \in RegFormats : DoRenderString(format)

SpecRegistry == InitRegistry /\ [][NextRegistry]_vars

(***************************************************************************)
(* Claims on the registry                                                  *)
(***************************************************************************)
WrittenFormats == DOMAIN lastWrite

LastWriteWins ==
    /\ \A f \in RegFormats \cup WrittenFormats \cup DOMAIN reg.mappings :
          /\ Get(reg, f).exists <=> f \in WrittenFormats
          /\ f \in WrittenFormats => Get(reg, f).mapping = lastWrite[f]
    /\ lastOp.op = "Register" =>
          \A g \in (DOMAIN reg.mappings \cup DOMAIN lastOp.before.mappings) \ {lastOp.format} :
              Get(reg, g) = Get(lastOp.before, g)

\* C2 as stated: after any sequence of default seeding, Register and LoadFromConfig,
\* Get(f) is the mapping of the most recent write for f (absent if never written), a
\* write to f leaves the other formats alone, and a string primitive with format f
\* renders as that mapping's validator expression verbatim in both dialects.
C2_AsStated ==
    /\ LastWriteWins
    /\ (lastOp.op = "RenderString" /\ lastOp.format \in WrittenFormats) =>
          lastOp.result = lastWrite[lastOp.format].Type

\* C2 amended: the same, where the rendering half covers every format in the Zod
\* dialect and every non-empty format in the io-ts dialect (io-ts renders the empty
\* format as t.string without a lookup).
C2_OverridePrecedence ==
    /\ LastWriteWins
    /\ (/\ lastOp.op = "RenderString"
        /\ lastOp.format \in WrittenFormats
        /\ (dialect = "typescript" => lastOp.format # "")) =>
          lastOp.result = lastWrite[lastOp.format].Type

\* a uuid override registered twice and then rendered: the second mapping is used
C2_Witness ==
    /\ nops = 2
    /\ lastOp.op = "RenderString"
    /\ lastOp.format = "uuid"
    /\ lastOp.result = "UUID.codec"
    /\ addDefaultMappings(dialect)["uuid"].Type # "UUID.codec"

\* the keys a loaded file provides in a block ("output" or "generation")
Provided(path, block) ==
    LET file == ConfigFile(dialect, path)
    IN  IF file.kind = "doc" THEN DOMAIN file[block] ELSE {}

\* C3: LoadFromConfig replaces an output field or a generation toggle only when the
\* document provides it; every output field and toggle the document omits keeps the
\* value it had before the load.
C3_OmittedFieldsKept ==
    lastOp.op = "LoadFromConfig" =>
        /\ \A f \in OutputFields \ Provided(lastOp.path, "output") :
              reg.output[f] = lastOp.before.output[f]
        /\ \A t \in Toggles(dialect) \ Provided(lastOp.path, "generation") :
              reg.generation[t] = lastOp.before.generation[t]

\* the import statements GetAllImports has to deliver for usedFormats
NeededImports(usedFormats) ==
    {reg.mappings[f].Import : f \in Range(usedFormats) \cap DOMAIN reg.mappings} \ {""}

\* C9: GetAllImports(used) starts with the dialect's base import; the rest are
\* exactly the non-empty import statements of the formats of `used` that have a
\* registry entry, ascending; with no such import the result is the base import alone.
C9_ImportsBaseThenSorted ==
    lastOp.op = "GetAllImports" =>
        LET res  == lastOp.result
            rest == Tail(res)
        IN  /\ Len(res) >= 1
            /\ res[1] = BaseImport(dialect)
            /\ Range(rest) = NeededImports(lastOp.usedFormats)
            /\ \A i, j \in 1..Len(rest) : i < j => ~StrLess(rest[j], rest[i])
            /\ NeededImports(lastOp.usedFormats) = {} => res = <<BaseImport(dialect)>>

\* two custom imports were needed and came back in the other order than they were used
C9_Witness ==
    /\ lastOp.op = "GetAllImports"
    /\ Len(lastOp.result) = 3
    /\ Len(lastOp.usedFormats) = 2
    /\ reg.mappings[lastOp.usedFormats[1]].Import = lastOp.result[3]

\* C10: the list GetAllImports returns holds no two equal strings.
C10_NoDuplicateImports ==
    lastOp.op = "GetAllImports" =>
        \A i, j \in 1..Len(lastOp.result) : i # j => lastOp.result[i] # lastOp.result[j]

(***************************************************************************)
(* Spec: the pipeline of main. The walker turns the schema map into the    *)
(* DTO list, Generate loads the configuration, sorts and writes the files; *)
(* a run that succeeded may be followed by another run on the same schema  *)
(* map and configuration.                                                  *)
(***************************************************************************)
PipeConfigs ==
    {"", "missing.yaml", "broken.yaml", "badmode.yaml", "emptymode.yaml", "types.yaml",
     "single.yaml", "manifest.yaml", "nopkg.yaml", "singleonly.yaml"}

\* the output folder before the first run: empty, or holding the user's manifest
InitialFolders == {NoKeys, ("package.json" :> UserFile("my-app"))}

NoRun == [some |-> FALSE, fs |-> NoKeys, dtos |-> <<>>]

Init ==
    /\ dialect \in Dialects
    /\ schemas \in SchemaMaps
    /\ cfg \in PipeConfigs
    /\ fs \in InitialFolders
    /\ reg = NewCustomTypeRegistry(dialect)
    /\ lastOp = [op |-> "NewCustomTypeRegistry"]
    /\ lastWrite = addDefaultMappings(dialect)
    /\ nops = 0
    /\ dtos = <<>>
    /\ pc = "start"
    /\ sortedDTOs = <<>>
    /\ idx = 0
    /\ err = ""
    /\ run = [n |-> 1, clean |-> (fs = NoKeys), startFs |-> fs, written |-> <<>>,
              prev |-> NoRun]

Logged(res, filename) ==
    [run EXCEPT !.written = IF res.created THEN Append(@, filename) ELSE @]

\* where Generate goes once the schema files are written
AfterFiles(r) == IF Toggle(r, "generatePackageJson") THEN "package" ELSE "returned"

\* dtos, err := convertToGeneratorDTOs(spec)
Walk(order) ==
    /\ pc = "start"
    /\ dtos' = convertToGeneratorDTOs(schemas, order)
    /\ pc' = "walked"
    /\ UNCHANGED <<dialect, regVars, schemas, cfg, fs, sortedDTOs, idx, err, run>>

\* Generate: registry, configuration, sort, choice of the layout
GenerateEntry ==
    /\ pc = "walked"
    /\ LET res == loadCustomTypes(dialect, cfg)
       IN  /\ reg' = res.reg
           /\ err' = res.err
           /\ IF res.err # ""
              THEN /\ pc' = "returned"
                   /\ UNCHANGED sortedDTOs
              ELSE /\ sortedDTOs' = sortDTOsByDependency(dtos)
                   /\ pc' = IF IsSingleFileMode(res.reg) THEN "single" ELSE "index"
    /\ UNCHANGED <<dialect, lastOp, lastWrite, nops, schemas, dtos, cfg, fs, idx, run>>

GenerateSingle(outcome) ==
    /\ pc = "single"
    /\ LET res == generateSingleFile(dialect, reg, fs, sortedDTOs, "", outcome)
       IN  /\ fs' = res.fs
           /\ run' = Logged(res, GetSingleFileName(reg))
           /\ err' = IF res.err # "" THEN "failed to generate single file: " \o res.err
                     ELSE ""
           /\ pc' = IF res.err # "" THEN "returned" ELSE AfterFiles(reg)
    /\ UNCHANGED <<dialect, regVars, schemas, dtos, cfg, sortedDTOs, idx>>

GenerateIndex(outcome) ==
    /\ pc = "index"
    /\ LET res == generateIndexFile(dialect, reg, fs, sortedDTOs, "", outcome)
       IN  /\ fs' = res.fs
           /\ run' = Logged(res, "index.ts")
           /\ err' = IF res.err # "" THEN "failed to generate index file: " \o res.err
                     ELSE ""
           /\ pc' = IF res.err # "" THEN "returned" ELSE "dto"
    /\ idx' = 1
    /\ UNCHANGED <<dialect, regVars, schemas, dtos, cfg, sortedDTOs>>

\* one round of: for _, dto := range sortedDTOs
GenerateDTO(outcome) ==
    /\ pc = "dto"
    /\ idx <= Len(sortedDTOs)
    /\ LET dto == sortedDTOs[idx]
           res == generateDTOFile(dialect, reg, fs, dto, "", outcome)
       IN  /\ fs' = res.fs
           /\ run' = Logged(res, toKebabCase(dto.Name) \o FileExtension)
           /\ err' = IF res.err # ""
                     THEN "failed to generate file for DTO " \o dto.Name \o ": " \o res.err
                     ELSE ""
           /\ pc' = IF res.err # "" THEN "returned"
                    ELSE IF idx < Len(sortedDTOs) THEN "dto" ELSE AfterFiles(reg)
    /\ idx' = idx + 1
    /\ UNCHANGED <<dialect, regVars, schemas, dtos, cfg, sortedDTOs>>

GeneratePackage(outcome) ==
    /\ pc = "package"
    /\ LET res == generatePackageJSON(dialect, fs, "", outcome)
       IN  /\ fs' = res.fs
           /\ run' = Logged(res, "package.json")
           /\ err' = IF res.err # "" THEN "failed to generate package.json: " \o res.err
                     ELSE ""
    /\ pc' = "returned"
    /\ UNCHANGED <<dialect, regVars, schemas, dtos, cfg, sortedDTOs, idx>>

\* the tool is started again, on the folder as it is or on an emptied folder
NewRun(clean) ==
    /\ pc = "returned"
    /\ err = ""
    /\ run.n < MaxRuns
    /\ fs' = IF clean THEN NoKeys ELSE fs
    /\ run' = [n |-> run.n + 1, clean |-> clean, startFs |-> fs', written |-> <<>>,
               prev |-> IF run.clean THEN [some |-> TRUE, fs |-> fs, dtos |-> dtos]
                        ELSE run.prev]
    /\ pc' = "start"
    /\ dtos' = <<>>
    /\ sortedDTOs' = <<>>
    /\ idx' = 0
    /\ UNCHANGED <<dialect, regVars, schemas, cfg, err>>

Next ==
    \/ \E order \in Perms(DOMAIN schemas) : Walk(order)
    \/ GenerateEntry
    \/ \E outcome \in Outcomes : GenerateSingle(outcome)
    \/ \E outcome \in Outcomes : GenerateIndex(outcome)
    \/ \E outcome \in Outcomes : GenerateDTO(outcome)
    \/ \E outcome \in Outcomes : GeneratePackage(outcome)
    \/ \E clean \in BOOLEAN : NewRun(clean)

Spec == Init /\ [][Next]_vars

(***************************************************************************)
(* Claims on the pipeline                                                  *)
(***************************************************************************)
LoadFailed == pc = "returned" /\ HasPrefix(err, "failed to load custom types config")
Generating == pc \in {"single", "index", "dto", "package", "returned"} /\ ~LoadFailed
Succeeded == pc = "returned" /\ err = ""

RECURSIVE AllDTOs(_)
RECURSIVE DTOsOfType(_)
\* the DTOs the walker built inside a property type (inline objects, also under arrays)
DTOsOfType(t) ==
    CASE t.kind = "Object" -> IF t.Inline THEN AllDTOs(t.DTORef) ELSE {}
      [] t.kind = "Array" -> DTOsOfType(t.ElementType)
      [] OTHER -> {}

AllDTOs(dto) ==
    {dto} \cup UNION {DTOsOfType(dto.Properties[i].Type) : i \in 1..Len(dto.Properties)}

WalkedDTOs == UNION {AllDTOs(dtos[i]) : i \in 1..Len(dtos)}

OptionalWrapped(d, expr) ==
    IF d = "typescript"
    THEN HasPrefix(expr, "t.union([") /\ HasSuffix(expr, ", t.undefined])")
    ELSE HasSuffix(expr, ".optional()")

\* C1: for every DTO the walker builds (nested ones included) and every property P
\* of it, P.Required holds exactly when P.Name is in the DTO's required list, and the
\* field expression rendered for P is optional-wrapped exactly when it is not.
C1_RequiredExactlyNotOptional ==
    Generating =>
        \A dto \in WalkedDTOs : \A i \in 1..Len(dto.Properties) :
            LET P == dto.Properties[i]
            IN  /\ P.Required <=> P.Name \in Range(dto.Required)
                /\ OptionalWrapped(dialect, renderField(dialect, reg, dto, P))
                      <=> P.Name \notin Range(dto.Required)

\* a run has written the files of a DTO with a required and an optional property
C1_Witness ==
    /\ Succeeded
    /\ \E dto \in WalkedDTOs : \E i, j \in 1..Len(dto.Properties) :
          /\ dto.Properties[i].Required
          /\ ~dto.Properties[j].Required
          /\ OptionalWrapped(dialect, renderField(dialect, reg, dto, dto.Properties[j]))

UntouchedFolder == fs = run.startFs /\ run.written = <<>>

\* C4 as stated: a configuration file that exists and cannot be parsed, or that sets
\* output.mode to anything other than multiple or single, makes Generate return an
\* error with no file of the output folder created, truncated or modified.
C4_AsStated ==
    (/\ pc = "returned"
     /\ cfg # ""
     /\ LET file == ConfigFile(dialect, cfg)
        IN  \/ file.kind = "unparsable"
            \/ /\ file.kind = "doc"
               /\ Has(file.output, "mode")
               /\ file.output["mode"] \notin {"multiple", "single"})
    => (err # "" /\ UntouchedFolder)

\* C4 amended: the same for a file that cannot be parsed or that sets output.mode to
\* a non-empty value other than multiple or single (an empty mode counts as not set).
C4_ConfigErrorBeforeFiles ==
    (/\ pc = "returned"
     /\ cfg # ""
     /\ LET file == ConfigFile(dialect, cfg)
        IN  \/ file.kind = "unparsable"
            \/ /\ file.kind = "doc"
               /\ Has(file.output, "mode")
               /\ file.output["mode"] \notin {"multiple", "single", ""})
    => (err # "" /\ UntouchedFolder)

\* Generate has returned the invalid-mode error on a folder that holds a file
C4_Witness ==
    /\ pc = "returned"
    /\ cfg = "badmode.yaml"
    /\ HasSuffix(err, "invalid output mode")
    /\ Has(fs, "package.json")
    /\ dtos # <<>>

ManifestRule ==
    /\ Has(run.startFs, "package.json") =>
          (Has(fs, "package.json") /\ fs["package.json"] = run.startFs["package.json"])
    /\ "package.json" \in Range(run.written) =>
          (Toggle(reg, "generatePackageJson") /\ ~Has(run.startFs, "package.json"))

C6_OneFilePerDTO ==
    (/\ Succeeded
     /\ ~IsSingleFileMode(reg)
     /\ \A i, j \in 1..Len(sortedDTOs) : i # j => sortedDTOs[i].Name # sortedDTOs[j].Name)
    => LET fileOf(i) == toKebabCase(sortedDTOs[i].Name) \o FileExtension
       IN  /\ \A i \in 1..Len(sortedDTOs) :
                 /\ Has(fs, fileOf(i))
                 /\ fs[fileOf(i)].template = "dto"
                 /\ fs[fileOf(i)].DTOs = <<sortedDTOs[i]>>
           /\ Has(fs, "index.ts")
           /\ fs["index.ts"].template = "index"
           /\ fs["index.ts"].DTOs = sortedDTOs
           /\ Cardinality({"index.ts"} \cup {fileOf(i) : i \in 1..Len(sortedDTOs)})
                 = Len(sortedDTOs) + 1

IsAscendingPermutation(sorted, input) ==
    /\ Len(sorted) = Len(input)
    /\ \E p \in Perms(1..Len(input)) : \A i \in 1..Len(input) : sorted[i] = input[p[i]]
    /\ \A i, j \in 1..Len(sorted) : i < j => ~StrLess(sorted[j].Name, sorted[i].Name)

WrittenAs(filename, template) ==
    /\ filename \in Range(run.written)
    /\ Has(fs, filename)
    /\ fs[filename].template = template

\* C7: the sequence Generate uses for the index file's exports, for the order of the
\* per-DTO file writes and for the definitions of the single file is a permutation
\* of the input list in ascending order of DTO name, whatever the input order.
C7_SortedOrder ==
    Generating =>
        /\ IsAscendingPermutation(sortedDTOs, dtos)
        /\ WrittenAs("index.ts", "index") => fs["index.ts"].DTOs = sortedDTOs
        /\ WrittenAs(GetSingleFileName(reg), "single-file") =>
              fs[GetSingleFileName(reg)].DTOs = sortedDTOs
        /\ ~IsSingleFileMode(reg) =>
              \A k \in 2..Len(run.written) :
                  run.written[k] = IF k - 1 <= Len(sortedDTOs)
                                   THEN toKebabCase(sortedDTOs[k - 1].Name) \o FileExtension
                                   ELSE "package.json"

\* three DTOs handed over out of order, index and per-DTO files written
C7_Witness ==
    /\ Succeeded
    /\ ~IsSingleFileMode(reg)
    /\ Len(dtos) = 3
    /\ dtos # sortedDTOs
    /\ Len(run.written) >= 4
    /\ fs["index.ts"].DTOs = sortedDTOs

\* C8: two runs of walker and Generate on the same schema map and configuration,
\* each into a clean folder, leave the same files with the same contents, whatever
\* order the schema map was iterated in.
C8_Deterministic ==
    (Succeeded /\ run.clean /\ run.prev.some) => fs = run.prev.fs

\* two clean runs that walked the schema map in different orders wrote the same files
C8_Witness ==
    /\ Succeeded
    /\ run.clean
    /\ run.prev.some
    /\ run.prev.dtos # dtos
    /\ Cardinality(DOMAIN fs) >= 3
    /\ fs = run.prev.fs

\* the import lines at the head of a generated file: the io-ts templates print
\* .Imports, the Zod single-file template carries the zod import itself
importBlock(d, file) ==
    IF d = "typescript" \/ file.template # "single-file" THEN file.Imports
    ELSE <<BaseImport(d)>> \o file.Imports

\* the import statements of the custom-mapped formats the DTOs of a list use
ImportsOfDTOs(r, dtoList) ==
    {r.mappings[f].Import :
        f \in UNION {Range(getUsedFormatsInDTO(dtoList[i])) : i \in 1..Len(dtoList)}
              \cap DOMAIN r.mappings} \ {""}

\* C11: in single mode, in both dialects, the import block of the one generated file
\* holds the base import plus the import statement of every custom-mapped format
\* used by any DTO, each exactly once.
C11_SingleFileImportUnion ==
    (Succeeded /\ IsSingleFileMode(reg) /\ WrittenAs(GetSingleFileName(reg), "single-file"))
    => LET block == importBlock(dialect, fs[GetSingleFileName(reg)])
       IN  /\ Len(block) >= 1
           /\ block[1] = BaseImport(dialect)
           /\ Range(Tail(block)) = ImportsOfDTOs(reg, sortedDTOs)
           /\ \A i, j \in 1..Len(block) : i # j => block[i] # block[j]

(***************************************************************************)
(* SpecRender: the type-to-code mapping applied to one property. The IR    *)
(* type is drawn from the variants of internal/generator/types.go, arrays  *)
(* nested up to MaxDepth, under a registry as Generate sets it up.         *)
(***************************************************************************)
MaxDepth == 2

RenderFormats == {"", "uuid", "int64", "custom1"}
RenderConfigs == {"", "types.yaml", "single.yaml", "library.yaml"}

BaseIRTypes ==
    {PrimitiveType("string", f) : f \in RenderFormats}
    \cup {PrimitiveType(n, "") : n \in {"number", "integer", "boolean", "unknown", "file"}}
    \cup {ReferenceType(n) : n \in {"User", "OrderLine"}}
    \cup {EnumType("StateEnum", "string", <<"open", "closed">>),
          EnumType("LevelEnum", "string", <<"low", "high", "low">>),
          EnumType("NoneEnum", "string", <<>>)}
    \cup {ObjectType(DTO("address", "", <<>>, <<>>, "object", <<>>), "", TRUE),
          ObjectType(DTO("User", "", <<>>, <<>>, "object", <<>>), "User", FALSE)}
    \cup {NilType, ForeignType}

RECURSIVE IRTypes(_)
IRTypes(depth) ==
    IF depth = 0 THEN BaseIRTypes
    ELSE LET inner == IRTypes(depth - 1) IN inner \cup {ArrayType(t) : t \in inner}

InitRender ==
    /\ dialect \in Dialects
    /\ \E c \in RenderConfigs : reg = loadCustomTypes(dialect, c).reg
    /\ lastOp = [op |-> "NewCustomTypeRegistry"]
    /\ lastWrite = reg.mappings
    /\ nops = 0
    /\ PipeIdle

\* the template renders the field of property p of a DTO
Render(irType, nullable, required) ==
    /\ lastOp.op = "NewCustomTypeRegistry"
    /\ LET prop == Property("p", irType, "", nullable, required)
           dto  == DTO("D", "", <<prop>>, IF required THEN <<"p">> ELSE <<>>, "object", <<>>)
       IN  lastOp' = [op |-> "Render", type |-> irType, nullable |-> nullable,
                      required |-> required,
                      base  |-> toValidator(dialect, reg, irType, FALSE),
                      expr  |-> toValidator(dialect, reg, irType, nullable),
                      field |-> renderField(dialect, reg, dto, prop)]
    /\ UNCHANGED <<dialect, reg, lastWrite, nops, pipeVars>>

NextRender ==
    /\ lastOp.op = "NewCustomTypeRegistry"
    /\ \E irType \in IRTypes(MaxDepth), nullable \in BOOLEAN, required \in BOOLEAN :
          Render(irType, nullable, required)

SpecRender == InitRender /\ [][NextRender]_vars

(***************************************************************************)
(* Claims on the type-to-code mapping                                      *)
(***************************************************************************)
Rendered == lastOp.op = "Render"

ReferenceSuffix(d) == IF d = "typescript" THEN "Codec" ELSE "Schema"
ArrayOpen(d) == IF d = "typescript" THEN "t.array(" ELSE "z.array("

\* a Reference, or arrays of arrays of ... a Reference
RECURSIVE IsReferenceNest(_)
IsReferenceNest(t) ==
    CASE t.kind = "Reference" -> TRUE
      [] t.kind = "Array" -> IsReferenceNest(t.ElementType)
      [] OTHER -> FALSE

RECURSIVE ReferenceNestSymbol(_, _)
ReferenceNestSymbol(d, t) ==
    IF t.kind = "Reference" THEN t.RefName \o ReferenceSuffix(d)
    ELSE ArrayOpen(d) \o ReferenceNestSymbol(d, t.ElementType) \o ")"

\* C12: a Reference(name) renders, as a property type or as an array element at any
\* depth, as name followed by the dialect's suffix (Codec / Schema); an array of it is
\* the array validator applied to exactly that symbol.
C12_ReferenceSuffix ==
    (Rendered /\ IsReferenceNest(lastOp.type)) =>
        lastOp.base = ReferenceNestSymbol(dialect, lastOp.type)

\* an array of arrays of a reference has been rendered
C12_Witness ==
    /\ Rendered
    /\ lastOp.type = ArrayType(ArrayType(ReferenceType("OrderLine")))
    /\ lastOp.base \in {"t.array(t.array(OrderLineCodec))", "z.array(z.array(OrderLineSchema))"}

NullWrapped(d, base) ==
    IF d = "typescript" THEN "t.union([" \o base \o ", t.null])" ELSE base \o ".nullable()"

UndefinedWrapped(d, expr) ==
    IF d = "typescript" THEN "t.union([" \o expr \o ", t.undefined])" ELSE expr \o ".optional()"

\* C13: the modifiers are applied after the base expression and independently: the
\* null wrapper is there exactly when nullable is set, the optional wrapper exactly
\* when the property is not required, the base expression is the same in all four
\* cases, and with both the base is wrapped by nullable first and then by optional.
C13_ModifiersStack ==
    Rendered =>
        LET withNull == IF lastOp.nullable THEN NullWrapped(dialect, lastOp.base)
                        ELSE lastOp.base
        IN  /\ lastOp.expr = withNull
            /\ lastOp.field = IF lastOp.required THEN withNull
                              ELSE UndefinedWrapped(dialect, withNull)
            /\ OptionalWrapped(dialect, lastOp.field) <=> ~lastOp.required

\* a nullable, not required string has been rendered in the Zod dialect
C13_Witness ==
    /\ Rendered
    /\ lastOp.nullable
    /\ ~lastOp.required
    /\ lastOp.field = "z.string().nullable().optional()"

(***************************************************************************)
(* SpecWalker: the walker applied to one schema node, as a property of a   *)
(* schema and as an entry of components.schemas. The node is drawn from    *)
(* the key combinations the walker tests, nested up to MaxNest.            *)
(***************************************************************************)
MaxNest == 2

TypeKeys ==
    {NoKeys} \cup {("type" :> t) : t \in {"string", "integer", "boolean", "array", "object",
                                         "file"}}
RefKeys == {NoKeys, ("$ref" :> "#/components/schemas/User")}
EnumKeys ==
    {NoKeys, ("enum" :> <<Str("b"), Str("a")>>), ("enum" :> <<Num("1"), Str("x"), Num("2")>>)}
OtherKeys == {NoKeys, ("nullable" :> TRUE) @@ ("format" :> "uuid")}

LeafNodes == {t @@ r @@ e @@ o : t \in TypeKeys, r \in RefKeys, e \in EnumKeys, o \in OtherKeys}

RECURSIVE SchemaNodes(_)
SchemaNodes(nest) ==
    IF nest = 0 THEN LeafNodes
    ELSE LET inner == SchemaNodes(nest - 1)
         IN  LeafNodes
             \cup {("type" :> "array") @@ ("items" :> i) @@ r : i \in inner, r \in RefKeys}
             \cup {("type" :> "object") @@ ("required" :> <<"zeta">>)
                   @@ ("properties" :> [zeta |-> p, alpha |-> StringNode, Beta |-> StringNode])
                   : p \in inner}

\* the walker is the same for both dialects
InitWalker ==
    /\ dialect = "typescript"
    /\ reg = NewCustomTypeRegistry(dialect)
    /\ lastOp = [op |-> "NewCustomTypeRegistry"]
    /\ lastWrite = addDefaultMappings(dialect)
    /\ nops = 0
    /\ PipeIdle

\* convertSchemaToGeneratorProperty(name, schema, required)
WalkProperty(name, node, required) ==
    /\ lastOp.op = "NewCustomTypeRegistry"
    /\ lastOp' = [op |-> "convertSchemaToGeneratorProperty", name |-> name, node |-> node,
                  required |-> required,
                  prop |-> convertSchemaToGeneratorProperty(name, node, required)]
    /\ UNCHANGED <<dialect, reg, lastWrite, nops, pipeVars>>

\* convertSchemaToGeneratorDTO(name, schema)
WalkSchema(name, node) ==
    /\ lastOp.op = "NewCustomTypeRegistry"
    /\ lastOp' = [op |-> "convertSchemaToGeneratorDTO", name |-> name, node |-> node,
                  dto |-> convertSchemaToGeneratorDTO(name, node)]
    /\ UNCHANGED <<dialect, reg, lastWrite, nops, pipeVars>>

\* schema maps whose entries refer to themselves, to each other, or to a name the
\* map does not hold
RefMaps ==
    { [Node |-> ("type" :> "object")
                @@ ("properties" :> [next |-> RefNode("Node"), value |-> StringNode]),
       Alias |-> RefNode("Alias")],
      [Author |-> ("type" :> "object")
                  @@ ("properties" :>
                        [books |-> ("type" :> "array") @@ ("items" :> RefNode("Book"))]),
       Book |-> ("type" :> "object")
                @@ ("required" :> <<"author">>)
                @@ ("properties" :> [author |-> RefNode("Author"), title |-> StringNode])],
      [Cart |-> ("type" :> "object")
                @@ ("properties" :> [item |-> RefNode("Ghost"),
                                     items |-> ("type" :> "array")
                                               @@ ("items" :> RefNode("Ghost"))])] }

\* convertToGeneratorDTOs(spec), the map visited in the order `order`
WalkMap(schemaMap, order) ==
    /\ lastOp.op = "NewCustomTypeRegistry"
    /\ lastOp' = [op |-> "convertToGeneratorDTOs", schemas |-> schemaMap, order |-> order,
                  dtos |-> convertToGeneratorDTOs(schemaMap, order)]
    /\ UNCHANGED <<dialect, reg, lastWrite, nops, pipeVars>>

NextWalker ==
    \/ /\ lastOp.op = "NewCustomTypeRegistry"
       /\ \E node \in SchemaNodes(MaxNest), required \in {<<>>, <<"owner">>} :
             WalkProperty("owner", node, required)
    \/ /\ lastOp.op = "NewCustomTypeRegistry"
       /\ \E node \in SchemaNodes(MaxNest) : WalkSchema("Order", node)
    \/ /\ lastOp.op = "NewCustomTypeRegistry"
       /\ \E schemaMap \in RefMaps :
             \E order \in Perms(DOMAIN schemaMap) : WalkMap(schemaMap, order)

SpecWalker == InitWalker /\ [][NextWalker]_vars

(***************************************************************************)
(* Claims on the walker                                                    *)
(***************************************************************************)
WalkedProperty == lastOp.op = "convertSchemaToGeneratorProperty"
WalkedSchema == lastOp.op = "convertSchemaToGeneratorDTO"

\* C14: a property node that has a $ref key and no enum key yields
\* Reference(text after the last slash of the $ref), whatever its type key holds
\* and whether it has one.
C14_RefBeforeType ==
    (WalkedProperty /\ Has(lastOp.node, "$ref") /\ ~Has(lastOp.node, "enum")) =>
        lastOp.prop.Type = ReferenceType(extractRefName(lastOp.node["$ref"]))

IRVariants == {"Primitive", "Object", "Array", "Reference", "Enum"}

RECURSIVE WellTyped(_)
WellTyped(t) ==
    /\ t.kind \in IRVariants
    /\ t.kind = "Array" => WellTyped(t.ElementType)

\* C15: every property the walker produces carries a type that is one of the IR
\* variants Primitive, Object, Array, Reference, Enum, and so does every array
\* element; no property or element is left without a type.
C15_NoNilType ==
    /\ WalkedProperty => WellTyped(lastOp.prop.Type)
    /\ WalkedSchema =>
          \A dto \in AllDTOs(lastOp.dto) : \A i \in 1..Len(dto.Properties) :
              WellTyped(dto.Properties[i].Type)

\* C16: every DTO the walker emits for an entry of the schema map has kind object or
\* enum, for every shape of top-level node.
C16_KindObjectOrEnum ==
    WalkedSchema => lastOp.dto.Type \in {"object", "enum"}

\* C17: the property list of every DTO the walker produces, top-level or inline, is
\* in strictly ascending order of property name.
C17_PropertiesSorted ==
    WalkedSchema =>
        \A dto \in AllDTOs(lastOp.dto) : \A i, j \in 1..Len(dto.Properties) :
            i < j => StrLess(dto.Properties[i].Name, dto.Properties[j].Name)

\* a schema with three properties, one of them an inline object with three more
C17_Witness ==
    /\ WalkedSchema
    /\ Len(lastOp.dto.Properties) = 3
    /\ lastOp.dto.Properties[1].Name = "Beta"
    /\ lastOp.dto.Properties[3].Name = "zeta"
    /\ \E dto \in AllDTOs(lastOp.dto) : dto.Name = "zeta" /\ Len(dto.Properties) = 3

\* the values an enum list declares, as written
DeclaredValues(node) == [i \in 1..Len(node["enum"]) |-> node["enum"][i].text]

\* the closed literal set over a value list, in the two dialects
KeyofLiteralSet(values) ==
    "t.keyof({" \o Join([i \in 1..Len(values) |-> "'" \o values[i] \o "': null"], ", ") \o "})"
EnumLiteralSet(values) ==
    "z.enum([" \o Join([i \in 1..Len(values) |-> "'" \o values[i] \o "'"], ", ") \o "])"

\* C18: for a node with an enum list the value list the walker stores (enum DTO or
\* Enum property type) equals the declared list in length, members and order, and
\* the generator emits the closed literal set with one literal per stored value in
\* that order.
C18_EnumOrderKept ==
    /\ (WalkedProperty /\ Has(lastOp.node, "enum")) =>
          /\ lastOp.prop.Type.kind = "Enum"
          /\ lastOp.prop.Type.Values = DeclaredValues(lastOp.node)
          /\ toIoTsType(reg, lastOp.prop.Type, FALSE)
                = KeyofLiteralSet(lastOp.prop.Type.Values)
          /\ toZodType(reg, lastOp.prop.Type, FALSE, FALSE)
                = EnumLiteralSet(lastOp.prop.Type.Values)
    /\ (WalkedSchema /\ Has(lastOp.node, "enum")) =>
          /\ lastOp.dto.Type = "enum"
          /\ lastOp.dto.EnumValues = DeclaredValues(lastOp.node)


BareString(d) == IF d = "typescript" THEN "t.string" ELSE "z.string()"

\* the bare string validator, in Zod followed by a comment naming the format
BareStringNaming(d, format) ==
    IF d = "typescript" THEN "t.string"
    ELSE "z.string() /* format: " \o format \o " */"

\* C19: a string primitive with an empty format renders as the bare string
\* validator of the dialect in every registry state, and a string primitive whose
\* format has no registry entry renders as the bare string validator (in Zod
\* followed only by a comment naming the format).
C19_BareStringFallback ==
    (Rendered /\ lastOp.type.kind = "Primitive" /\ lastOp.type.Name = "string") =>
        /\ lastOp.type.Format = "" => lastOp.base = BareString(dialect)
        /\ (lastOp.type.Format # "" /\ ~Get(reg, lastOp.type.Format).exists) =>
              lastOp.base = BareStringNaming(dialect, lastOp.type.Format)


(***************************************************************************)
(* The two layouts of one DTO list                                         *)
(***************************************************************************)
\* the schema names a per-DTO file or the single file defines and exports: the
\* codec / schema of every DTO handed to the template, and the partial codec of
\* every object DTO when partial codecs are switched on
schemaNames(d, file) ==
    IF file.template \notin {"dto", "single-file"} THEN {}
    ELSE {file.DTOs[i].Name \o ReferenceSuffix(d) : i \in 1..Len(file.DTOs)}
         \cup {file.DTOs[i].Name \o "PartialCodec" :
                  i \in {j \in 1..Len(file.DTOs) :
                            file.GeneratePartialCodecs /\ file.DTOs[j].Type = "object"}}

ExportedNames(d, files, names) ==
    UNION {schemaNames(d, files[f]) : f \in names \cap DOMAIN files}

\* for _, dto := range sortedDTOs { generateDTOFile(dto, ...) }
RECURSIVE DTOFilesFrom(_, _, _, _, _)
DTOFilesFrom(d, r, files, dtoList, i) ==
    IF i > Len(dtoList) THEN files
    ELSE DTOFilesFrom(d, r, generateDTOFile(d, r, files, dtoList[i], "", "ok").fs,
                      dtoList, i + 1)

\* the else branch of Generate, on an empty folder
MultipleLayout(d, r, dtoList) ==
    DTOFilesFrom(d, r, generateIndexFile(d, r, NoKeys, dtoList, "", "ok").fs, dtoList, 1)

\* the single-file branch of Generate, on an empty folder
SingleLayout(d, r, dtoList) == generateSingleFile(d, r, NoKeys, dtoList, "", "ok").fs

\* the same configuration with the other output mode
InMode(r, mode) == [r EXCEPT !.output.mode = mode]

\* C20: layout equivalence: the schema names the files of a successful run define
\* and export are the schema names a run in the other output mode, on the same DTO
\* list and otherwise identical configuration, defines and exports.
C20_LayoutEquivalence ==
    Succeeded =>
        LET other == IF IsSingleFileMode(reg)
                     THEN MultipleLayout(dialect, InMode(reg, "multiple"), sortedDTOs)
                     ELSE SingleLayout(dialect, InMode(reg, "single"), sortedDTOs)
        IN  ExportedNames(dialect, fs, Range(run.written))
                = ExportedNames(dialect, other, DOMAIN other)

(***************************************************************************)
(* SpecGenerate: one generator instance whose Generate is called again and *)
(* again, each call with a configuration of its own, on the folder the     *)
(* earlier calls left.  The steps of a call are those of Spec.             *)
(***************************************************************************)
CallConfigs == {"", "missing.yaml", "single.yaml", "nopkg.yaml", "badmode.yaml"}

InitGenerate ==
    /\ dialect \in Dialects
    /\ schemas = [User |-> UserSchema, Status |-> StatusSchema]
    /\ cfg \in CallConfigs
    /\ fs = NoKeys
    /\ reg = NewCustomTypeRegistry(dialect)
    /\ lastOp = [op |-> "NewCustomTypeRegistry"]
    /\ lastWrite = addDefaultMappings(dialect)
    /\ nops = 0
    /\ dtos = <<>>
    /\ pc = "start"
    /\ sortedDTOs = <<>>
    /\ idx = 0
    /\ err = ""
    /\ run = [n |-> 1, clean |-> TRUE, startFs |-> fs, written |-> <<>>, prev |-> NoRun]

\* the next call of Generate on the same generator, after a return with or without
\* an error; g.customTypes keeps the registry of the call before until Generate
\* assigns it again
NewCall(config) ==
    /\ pc = "returned"
    /\ run.n < MaxRuns
    /\ cfg' = config
    /\ run' = [n |-> run.n + 1, clean |-> FALSE, startFs |-> fs, written |-> <<>>,
               prev |-> [some |-> TRUE, fs |-> fs, dtos |-> dtos, cfg |-> cfg, reg |-> reg]]
    /\ pc' = "start"
    /\ err' = ""
    /\ dtos' = <<>>
    /\ sortedDTOs' = <<>>
    /\ idx' = 0
    /\ UNCHANGED <<dialect, regVars, schemas, fs>>

NextGenerate ==
    \/ \E order \in Perms(DOMAIN schemas) : Walk(order)
    \/ GenerateEntry
    \/ \E outcome \in Outcomes : GenerateSingle(outcome)
    \/ \E outcome \in Outcomes : GenerateIndex(outcome)
    \/ \E outcome \in Outcomes : GenerateDTO(outcome)
    \/ \E outcome \in Outcomes : GeneratePackage(outcome)
    \/ \E config \in CallConfigs : NewCall(config)

SpecGenerate == InitGenerate /\ [][NextGenerate]_vars

\* Generate has assigned g.customTypes in the call under way
RegistryBuilt == pc \notin {"start", "walked"}

\* the registry of the defaults under one configuration file
RegistryOf(d, configFile) ==
    IF configFile = "" THEN NewCustomTypeRegistry(d)
    ELSE LoadFromConfig(d, NewCustomTypeRegistry(d), configFile).reg

\* C21: in any sequence of Generate calls on one generator the registry of a call
\* (mappings, output mode, single-file name, generation toggles) is the registry
\* of the defaults under that call's own configuration; what an earlier call
\* loaded has no effect.
C21_FreshRegistryPerCall ==
    RegistryBuilt => reg = RegistryOf(dialect, cfg)

\* a call without configuration after a call that loaded single mode, another
\* file name, other toggles and a custom mapping
C21_Witness ==
    /\ RegistryBuilt
    /\ run.n >= 2
    /\ run.prev.cfg = "single.yaml"
    /\ IsSingleFileMode(run.prev.reg)
    /\ cfg = ""
    /\ reg = NewCustomTypeRegistry(dialect)
    /\ reg # run.prev.reg

\* C22: LoadFromConfig on a path where no file exists returns no error and leaves
\* mappings, output configuration and generation toggles as they were before the
\* call; a Generate whose ConfigFile names such a path runs with the defaults.
C22_MissingConfigKeepsRegistry ==
    /\ (lastOp.op = "LoadFromConfig" /\ ConfigFile(dialect, lastOp.path).kind = "missing") =>
          /\ lastOp.err = ""
          /\ reg = lastOp.before
    /\ \A path \in {p \in ConfigPaths : ConfigFile(dialect, p).kind = "missing"} :
          loadCustomTypes(dialect, path)
              = [reg |-> NewCustomTypeRegistry(dialect), err |-> ""]

\* a load from a missing file on a registry that no longer holds the defaults
C22_Witness ==
    /\ lastOp.op = "LoadFromConfig"
    /\ lastOp.path = "missing.yaml"
    /\ lastOp.before # NewCustomTypeRegistry(dialect)
    /\ reg = lastOp.before

\* the single-file name the configuration of the run asks for
ConfiguredSingleFileName ==
    LET file == IF cfg = "" THEN [kind |-> "missing"] ELSE ConfigFile(dialect, cfg)
    IN  IF file.kind = "doc" /\ Has(file.output, "singleFileName")
           /\ file.output["singleFileName"] # ""
        THEN file.output["singleFileName"]
        ELSE "schemas.ts"

DefaultOutputFolder == "./generated"

\* the -out flag: not passed, or passed with a value (the default value included)
OutFlags ==
    {[passed |-> FALSE, value |-> ""]}
    \cup {[passed |-> TRUE, value |-> v] : v \in {DefaultOutputFolder, "./out"}}

\* the -config flag
ConfigFlags == {"", "missing.yaml", "pkgonly.yaml", "badmode.yaml", "single.yaml"}

\* the dtoforge.config.yaml the discovery probes find, if any
FoundConfigs == {"", "pkgonly.yaml"}

CLIArgs ==
    [out : OutFlags, config : ConfigFlags, noConfig : BOOLEAN, found : FoundConfigs]

\* flag.String("out", "./generated", ...): the flag's value, or its default
parseCLIArgs(args) ==
    [OutputFolder |-> IF args.out.passed THEN args.out.value ELSE DefaultOutputFolder,
     ConfigFile   |-> args.config,
     NoConfig     |-> args.noConfig]

discoverConfigFile(config, found) ==
    IF config.NoConfig THEN ""
    ELSE IF config.ConfigFile # "" THEN config.ConfigFile
    ELSE found

\* main: the folder handed to MkdirAll and to Generate; the configuration is read
\* with a registry of the io-ts package, whatever the target language
finalOutputFolder(config, configFile) ==
    IF configFile = "" THEN config.OutputFolder
    ELSE LET res == LoadFromConfig("typescript", NewCustomTypeRegistry("typescript"),
                                   configFile)
         IN  IF res.err # "" THEN config.OutputFolder
             ELSE IF config.OutputFolder = DefaultOutputFolder
                     /\ GetOutputConfig(res.reg).folder # ""
                  THEN GetOutputConfig(res.reg).folder
                  ELSE config.OutputFolder

InitMain ==
    /\ dialect \in Dialects
    /\ schemas = [User |-> UserSchema, Status |-> StatusSchema]
    /\ cfg = ""
    /\ fs = NoKeys
    /\ reg = NewCustomTypeRegistry(dialect)
    /\ lastOp \in {[op |-> "start", args |-> a] : a \in CLIArgs}
    /\ lastWrite = addDefaultMappings(dialect)
    /\ nops = 0
    /\ dtos = <<>>
    /\ pc = "main"
    /\ sortedDTOs = <<>>
    /\ idx = 0
    /\ err = ""
    /\ run = [n |-> 1, clean |-> TRUE, startFs |-> fs, written |-> <<>>, prev |-> NoRun]

\* main, up to os.MkdirAll(finalOutputFolder)
MainSetup ==
    /\ pc = "main"
    /\ LET config     == parseCLIArgs(lastOp.args)
           configFile == discoverConfigFile(config, lastOp.args.found)
       IN  /\ cfg' = configFile
           /\ lastOp' = [op |-> "main", args |-> lastOp.args, config |-> config,
                         OutputFolder |-> finalOutputFolder(config, configFile)]
    /\ pc' = "start"
    /\ UNCHANGED <<dialect, reg, lastWrite, nops, schemas, dtos, fs, sortedDTOs, idx,
                   err, run>>

NextMain ==
    \/ MainSetup
    \/ \E order \in Perms(DOMAIN schemas) : Walk(order)
    \/ GenerateEntry
    \/ \E outcome \in Outcomes : GenerateSingle(outcome)
    \/ \E outcome \in Outcomes : GenerateIndex(outcome)
    \/ \E outcome \in Outcomes : GenerateDTO(outcome)
    \/ \E outcome \in Outcomes : GeneratePackage(outcome)

SpecMain == InitMain /\ [][NextMain]_vars

\* the output folder of the configuration file in use, "" when the file gives none
\* or cannot be loaded
ConfiguredFolder ==
    LET file == IF cfg = "" THEN [kind |-> "missing"] ELSE ConfigFile("typescript", cfg)
    IN  IF file.kind = "doc" /\ Has(file.output, "folder")
           /\ LoadFromConfig("typescript", NewCustomTypeRegistry("typescript"), cfg).err = ""
        THEN file.output["folder"]
        ELSE ""

\* C24: the output folder handed to the generator is the value of -out whenever the
\* user passes -out; the output.folder of the configuration file is used only when
\* -out was not passed (and the default folder when neither names one).
C24_OutFlagWins ==
    lastOp.op = "main" =>
        IF lastOp.args.out.passed
        THEN lastOp.OutputFolder = lastOp.args.out.value
        ELSE lastOp.OutputFolder = IF ConfiguredFolder # "" THEN ConfiguredFolder
                                   ELSE DefaultOutputFolder

\* the file name of the i-th DTO of the sorted list
DTOFileName(i) == toKebabCase(sortedDTOs[i].Name) \o FileExtension

\* the names of the first n per-DTO files, in the order of the sorted list
DTOFileNames(n) == [i \in 1..n |-> DTOFileName(i)]

\* Generate has returned the error of the k-th per-DTO file
DTOFileFailed ==
    /\ pc = "returned"
    /\ HasPrefix(err, "failed to generate file for DTO ")

\* index.ts and the first n per-DTO files are on disk as Generate wrote them
WrittenIntact(n) ==
    /\ Has(fs, "index.ts")
    /\ fs["index.ts"].template = "index"
    /\ fs["index.ts"].DTOs = sortedDTOs
    /\ \A i \in 1..n :
          /\ Has(fs, DTOFileName(i))
          /\ fs[DTOFileName(i)].template = "dto"
          /\ fs[DTOFileName(i)].DTOs = <<sortedDTOs[i]>>

\* C25: in multiple mode Generate writes index.ts first, then the per-DTO files one
\* at a time in ascending name order, then package.json; when the k-th per-DTO file
\* fails Generate returns an error at once: index.ts and the k-1 DTO files written
\* before stay on disk unchanged, and no later DTO file and no package.json is
\* written.
C25_WriteOrderAndAbort ==
    /\ (Succeeded /\ ~IsSingleFileMode(reg)) =>
          /\ IsAscendingPermutation(sortedDTOs, dtos)
          /\ \/ run.written = <<"index.ts">> \o DTOFileNames(Len(sortedDTOs))
             \/ run.written = <<"index.ts">> \o DTOFileNames(Len(sortedDTOs))
                                \o <<"package.json">>
    /\ DTOFileFailed =>
          LET k == idx - 1
          IN  /\ k \in 1..Len(sortedDTOs)
              /\ \/ run.written = <<"index.ts">> \o DTOFileNames(k - 1)
                 \/ run.written = <<"index.ts">> \o DTOFileNames(k)
              /\ WrittenIntact(k - 1)

\* strings.Contains
Contains(s, substr) ==
    \E i \in 1..(Len(s) - Len(substr) + 1) : SubSeq(s, i, i + Len(substr) - 1) = substr

\* Generate has returned the error of a schema file: of the single file, created and
\* not rendered to the end, or of a per-DTO file
DTOOutputFailed ==
    /\ pc = "returned"
    /\ \/ /\ HasPrefix(err, "failed to generate single file")
          /\ GetSingleFileName(reg) \in Range(run.written)
       \/ HasPrefix(err, "failed to generate file for DTO ")

\* C26: whenever rendering or writing the output of a DTO fails during Generate, in
\* either output mode, the error Generate returns carries the name of the DTO whose
\* rendering failed: the DTO of the failed file in multiple mode, one of the DTOs of
\* the single file in single mode.
C26_ErrorNamesDTO ==
    DTOOutputFailed =>
        IF IsSingleFileMode(reg)
        THEN \E i \in 1..Len(sortedDTOs) : Contains(err, sortedDTOs[i].Name)
        ELSE Contains(err, "DTO " \o sortedDTOs[idx - 1].Name \o ": ")

\* the distinct non-empty formats of the top-level Primitive properties of a DTO
TopLevelFormats(dto) ==
    {dto.Properties[i].Type.Format :
        i \in {j \in 1..Len(dto.Properties) : dto.Properties[j].Type.kind = "Primitive"}}
    \ {""}

\* the per-DTO files of this run that are on disk as rendered
DTOFilesWritten ==
    {f \in Range(run.written) \cap DOMAIN fs : fs[f].template = "dto"}

\* C27: the import list of a per-DTO file is GetAllImports applied to exactly the
\* distinct non-empty formats of the DTO's top-level Primitive properties; a format
\* that occurs only inside an array element, an inline object or another
\* non-Primitive type contributes no import, even when the rendered expression uses
\* the custom validator of that format.
C27_ShallowImportScan ==
    \A f \in DTOFilesWritten :
        LET dto == fs[f].DTOs[1]
        IN  fs[f].Imports
               = GetAllImports(dialect, reg, SetToSeq(TopLevelFormats(dto)))

\* a per-DTO file that renders an array of the date-time validator of the io-ts
\* defaults and does not import it
C27_Witness ==
    \E f \in DTOFilesWritten :
        /\ \E i \in 1..Len(fs[f].body[1]) :
              Contains(fs[f].body[1][i].expr, "t.array(DateFromISOString)")
        /\ reg.mappings["date-time"].Import # ""
        /\ reg.mappings["date-time"].Import \notin Range(fs[f].Imports)
        /\ TopLevelFormats(fs[f].DTOs[1]) = {"uuid"}

NumericValidator(d) == IF d = "typescript" THEN "t.number" ELSE "z.number()"
BooleanValidator(d) == IF d = "typescript" THEN "t.boolean" ELSE "z.boolean()"
UnknownPlaceholder(d) == IF d = "typescript" THEN "t.unknown" ELSE "z.unknown()"

\* C28: type rendering is total: every IR value renders to an expression; Primitive
\* number and integer both render as the numeric validator, boolean as the boolean
\* validator, and every other Primitive name (the walker's fallback unknown
\* included) and every unrecognised or absent IR value as the unknown placeholder
\* of the dialect.
C28_RenderingTotal ==
    Rendered =>
        /\ Len(lastOp.base) > 0
        /\ Len(lastOp.expr) > 0
        /\ lastOp.type.kind = "Primitive" =>
              /\ lastOp.type.Name \in {"number", "integer"} =>
                    lastOp.base = NumericValidator(dialect)
              /\ lastOp.type.Name = "boolean" => lastOp.base = BooleanValidator(dialect)
              /\ lastOp.type.Name \notin {"string", "number", "integer", "boolean"} =>
                    lastOp.base = UnknownPlaceholder(dialect)
        /\ lastOp.type.kind \notin IRVariants => lastOp.base = UnknownPlaceholder(dialect)

\* an integer in the Zod dialect renders as the validator of numbers
C28_Witness ==
    /\ Rendered
    /\ dialect = "typescript-zod"
    /\ lastOp.type = PrimitiveType("integer", "")
    /\ lastOp.base = "z.number()"

WalkedMap == lastOp.op = "convertToGeneratorDTOs"

\* the schema names the $ref nodes of RefMaps name
RefTargets == {"Node", "Alias", "Author", "Book", "Ghost"}

\* the property type of a node that is a $ref, or an array of a $ref, names the
\* target and holds nothing of the target's schema
NamesTargetOnly(node, type) ==
    /\ DOMAIN node = {"$ref"} =>
          \E n \in RefTargets : node = RefNode(n) /\ type = ReferenceType(n)
    /\ (Has(node, "items") /\ DOMAIN node["items"] = {"$ref"}) =>
          \E n \in RefTargets :
              node["items"] = RefNode(n) /\ type = ArrayType(ReferenceType(n))

ModeRejected == lastOp.op = "LoadFromConfig" /\ lastOp.err = "invalid output mode"

\* C30: after any sequence of Register and LoadFromConfig calls on a registry made
\* by NewCustomTypeRegistry, failed loads included, the output mode is multiple or
\* single and GetSingleFileName returns a non-empty name; a load rejected for an
\* invalid mode leaves the mode, the generation toggles and the mappings as they
\* were before that load.
C30_OutputConfigValid ==
    /\ reg.output.mode \in {"multiple", "single"}
    /\ GetSingleFileName(reg) # ""
    /\ ModeRejected =>
          /\ reg.output.mode = lastOp.before.output.mode
          /\ reg.generation = lastOp.before.generation
          /\ reg.mappings = lastOp.before.mappings

\* a rejected load on a registry in single mode with toggles switched off; the file
\* of the rejected load asks for other toggles and another uuid mapping
C30_Witness ==
    /\ ModeRejected
    /\ lastOp.path = "badmode.yaml"
    /\ lastOp.before.output.mode = "single"
    /\ reg.output.mode = "single"
    /\ \E t \in Toggles(dialect) : reg.generation[t]
    /\ reg.mappings["uuid"] = MapUUIDCodec

====
